---- MODULE Spec2Model ----
(***************************************************************************)
(* Construction of PowerBiDashboardSourceConfig                            *)
(* (metadata-ingestion/src/datahub/ingestion/source/powerbi/config.py).    *)
(*                                                                         *)
(* A raw key -> value mapping is turned into a configuration object by the *)
(* steps the class declares: the pre root validator                        *)
(* raise_error_for_dataset_type_mapping, the per-field validation with the *)
(* field validator map_data_platform, the post root validator              *)
(* workspace_id_backward_compatibility, and the construction of the object *)
(* (or the raising of the collected errors).                               *)
(*                                                                         *)
(* Python values are tagged records, so that None, strings, dicts and      *)
(* patterns can be compared with each other; a dict is a function whose    *)
(* domain is the set of its keys.                                          *)
(***************************************************************************)
EXTENDS Integers, Sequences, FiniteSets, TLC

-----------------------------------------------------------------------------
(* Bounds of the input space *)

MaxIdLen == 1
MaxPatternLen == 1
MaxPasses == 2

-----------------------------------------------------------------------------
(* Python values *)

None == [tag |-> "None"]
Str(s) == [tag |-> "str", s |-> s]
Bool(b) == [tag |-> "bool", b |-> b]
Integer(n) == [tag |-> "int", n |-> n]
Dict(m) == [tag |-> "dict", m |-> m]
Pattern(allow, deny) == [tag |-> "AllowDenyPattern", allow |-> allow, deny |-> deny]

EmptyMap == [k \in {} |-> ""]
EmptyDict == [k \in {} |-> None]

\* dict.get(k): the value, or None when the key is missing
Get(values, k) == IF k \in DOMAIN values THEN values[k] ELSE None

\* dict.pop(k)
Pop(values, k) == [j \in DOMAIN values \ {k} |-> values[j]]

\* values[k] = v
Put(values, k, v) == [j \in DOMAIN values \cup {k} |-> IF j = k THEN v ELSE values[j]]

\* the truth value Python gives an Optional[str]: None and "" are false
Truthy(v) == v.tag = "str" /\ v.s # ""

\* str(v) as an f-string interpolates it
Format(v) == IF v.tag = "str" THEN v.s ELSE "None"

-----------------------------------------------------------------------------
(* The field schema *)

SupportedDataPlatform ==
    << [powerbi_data_platform_name |-> "PostgreSQL", datahub_data_platform_name |-> "postgres"],
       [powerbi_data_platform_name |-> "Oracle", datahub_data_platform_name |-> "oracle"],
       [powerbi_data_platform_name |-> "Snowflake", datahub_data_platform_name |-> "snowflake"],
       [powerbi_data_platform_name |-> "Sql", datahub_data_platform_name |-> "mssql"],
       [powerbi_data_platform_name |-> "GoogleBigQuery", datahub_data_platform_name |-> "bigquery"],
       [powerbi_data_platform_name |-> "AmazonRedshift", datahub_data_platform_name |-> "redshift"] >>

\* the loop of default_for_dataset_type_mapping: a later item overwrites an earlier one
default_for_dataset_type_mapping ==
    LET items == SupportedDataPlatform
        names == {items[i].powerbi_data_platform_name : i \in DOMAIN items}
        last(k) == CHOOSE i \in DOMAIN items :
                      /\ items[i].powerbi_data_platform_name = k
                      /\ \A j \in DOMAIN items :
                            items[j].powerbi_data_platform_name = k => j <= i
    IN  [k \in names |-> items[last(k)].datahub_data_platform_name]

\* AllowDenyPattern.allow_all()
allow_all == Pattern(<< ".*" >>, << >>)

ScanTimeoutDefault == 60

RequiredFields == {"tenant_id", "client_id", "client_secret"}

ToggleFields ==
    {"extract_ownership", "extract_reports", "extract_lineage",
     "extract_endorsements_to_tags", "extract_workspaces_to_containers",
     "native_query_parsing", "convert_urns_to_lowercase",
     "convert_lineage_urns_to_lowercase", "admin_apis_only"}

\* the defaults with extract_reports and admin_apis_only the other way round
FieldDefault_flipped ==
    [workspace_id |-> None,
     workspace_id_pattern |-> allow_all,
     dataset_type_mapping |-> Dict(default_for_dataset_type_mapping),
     server_to_platform_instance |-> Dict(EmptyMap),
     scan_timeout |-> Integer(ScanTimeoutDefault),
     extract_ownership |-> Bool(FALSE),
     extract_reports |-> Bool(FALSE),
     extract_lineage |-> Bool(TRUE),
     extract_endorsements_to_tags |-> Bool(FALSE),
     extract_workspaces_to_containers |-> Bool(TRUE),
     native_query_parsing |-> Bool(TRUE),
     convert_urns_to_lowercase |-> Bool(FALSE),
     convert_lineage_urns_to_lowercase |-> Bool(TRUE),
     admin_apis_only |-> Bool(TRUE)]

\* the fields the class declares with a default, and the default of each
FieldDefault ==
    [workspace_id |-> None,
     workspace_id_pattern |-> allow_all,
     dataset_type_mapping |-> Dict(default_for_dataset_type_mapping),
     server_to_platform_instance |-> Dict(EmptyMap),
     scan_timeout |-> Integer(ScanTimeoutDefault),
     extract_ownership |-> Bool(FALSE),
     extract_reports |-> Bool(TRUE),
     extract_lineage |-> Bool(TRUE),
     extract_endorsements_to_tags |-> Bool(FALSE),
     extract_workspaces_to_containers |-> Bool(TRUE),
     native_query_parsing |-> Bool(TRUE),
     convert_urns_to_lowercase |-> Bool(FALSE),
     convert_lineage_urns_to_lowercase |-> Bool(TRUE),
     admin_apis_only |-> Bool(FALSE)]

\* the fields declared Optional: None is a value of theirs
OptionalFields == {"workspace_id"}

Fields == RequiredFields \cup DOMAIN FieldDefault

-----------------------------------------------------------------------------
(* The validators *)

\* map_data_platform without its del: the old key stays beside the new one
map_data_platform_nodelete(value) ==
    IF "PostgreSql" \in DOMAIN value
    THEN [k \in DOMAIN value \cup {"PostgreSQL"} |->
             IF k = "PostgreSQL" THEN value["PostgreSql"] ELSE value[k]]
    ELSE value

\* @validator("dataset_type_mapping") map_data_platform, on the dict it is given
map_data_platform(value) ==
    IF "PostgreSql" \in DOMAIN value
    THEN LET platform_name == value["PostgreSql"]
             deleted == [k \in DOMAIN value \ {"PostgreSql"} |-> value[k]]
         IN  [k \in DOMAIN deleted \cup {"PostgreSQL"} |->
                 IF k = "PostgreSQL" THEN platform_name ELSE deleted[k]]
    ELSE value

\* the guard testing the truth of the two values instead of "is not None"
ConflictRaised_nonempty(values) ==
    /\ Get(values, "dataset_type_mapping").tag = "dict"
    /\ DOMAIN Get(values, "dataset_type_mapping").m # {}
    /\ Get(values, "server_to_platform_instance").tag = "dict"
    /\ DOMAIN Get(values, "server_to_platform_instance").m # {}

\* the guard seeing the default a missing dataset_type_mapping would be given
ConflictRaised_defaults(values) ==
    /\ ("dataset_type_mapping" \notin DOMAIN values \/ Get(values, "dataset_type_mapping") # None)
    /\ Get(values, "server_to_platform_instance") # None

\* the condition under which raise_error_for_dataset_type_mapping raises
ConflictRaised(values) ==
    /\ Get(values, "dataset_type_mapping") # None
    /\ Get(values, "server_to_platform_instance") # None

ConflictError == "dataset_type_mapping is deprecated. Use server_to_platform_instance only."

\* the pattern without its closing anchor: a prefix match
AnchoredPattern_prefix(workspace_id) == Pattern(<< "^" \o Format(workspace_id) >>, << >>)

\* AllowDenyPattern(allow=[f"^{workspace_id}$"])
AnchoredPattern(workspace_id) == Pattern(<< "^" \o Format(workspace_id) \o "$" >>, << >>)

WarnFolded == "workspace_id_pattern is not set but workspace_id is set"
WarnIgnored == "workspace_id will be ignored in favour of workspace_id_pattern"

\* the first branch without its "and workspace_id"
BackwardCompatibilityCase_unchecked(values) ==
    LET workspace_id == Get(values, "workspace_id")
        workspace_id_pattern == Get(values, "workspace_id_pattern")
    IN  IF workspace_id_pattern = Pattern(<< ".*" >>, << >>) THEN "fold"
        ELSE IF Truthy(workspace_id) THEN "ignore"
        ELSE "none"

\* the first branch without its comparison of the pattern
BackwardCompatibilityCase_foldalways(values) ==
    IF Truthy(Get(values, "workspace_id")) THEN "fold" ELSE "none"

\* the branch workspace_id_backward_compatibility takes
BackwardCompatibilityCase(values) ==
    LET workspace_id == Get(values, "workspace_id")
        workspace_id_pattern == Get(values, "workspace_id_pattern")
    IN  IF workspace_id_pattern = allow_all /\ Truthy(workspace_id) THEN "fold"
        ELSE IF workspace_id_pattern # allow_all /\ Truthy(workspace_id) THEN "ignore"
        ELSE "none"

\* the second branch without its pop
workspace_id_backward_compatibility_keep(values) ==
    IF BackwardCompatibilityCase(values) = "fold"
    THEN Put(values, "workspace_id_pattern", AnchoredPattern(Get(values, "workspace_id")))
    ELSE values

\* the first branch popping workspace_id as the second does
workspace_id_backward_compatibility_popboth(values) ==
    IF BackwardCompatibilityCase(values) = "fold"
    THEN Pop(Put(values, "workspace_id_pattern", AnchoredPattern(Get(values, "workspace_id"))),
             "workspace_id")
    ELSE IF BackwardCompatibilityCase(values) = "ignore"
    THEN Pop(values, "workspace_id")
    ELSE values

\* the dict workspace_id_backward_compatibility returns
workspace_id_backward_compatibility(values) ==
    LET workspace_id == Get(values, "workspace_id")
        branch == BackwardCompatibilityCase(values)
    IN  IF branch = "fold"
        THEN Put(values, "workspace_id_pattern", AnchoredPattern(workspace_id))
        ELSE IF branch = "ignore"
        THEN Pop(values, "workspace_id")
        ELSE values

\* the outcome of validating one field of the raw mapping
FieldError(input, k) ==
    IF k \notin DOMAIN input
    THEN IF k \in RequiredFields THEN {"field required: " \o k} ELSE {}
    ELSE IF input[k] = None /\ k \notin OptionalFields
         THEN {"none is not an allowed value: " \o k}
         ELSE {}

FieldValue(input, k) ==
    IF k \notin DOMAIN input THEN FieldDefault[k]
    ELSE IF k = "dataset_type_mapping" THEN Dict(map_data_platform(input[k].m))
    ELSE input[k]

\* the values and the errors of the per-field validation
ValidatedFields(input) ==
    [k \in {f \in Fields : FieldError(input, f) = {}} |-> FieldValue(input, k)]

FieldErrors(input) == UNION {FieldError(input, k) : k \in Fields}

-----------------------------------------------------------------------------
(* Inputs *)

Chars == {"a", "b"}

RECURSIVE Strings(_)
Strings(n) == IF n = 0 THEN {""}
              ELSE Strings(n - 1) \cup {s \o c : s \in Strings(n - 1), c \in Chars}

WorkspaceIds == Strings(MaxIdLen)

Regexes == {".*", "^foo.*"}
DenyRegexes == {"^foo.*"}

RegexLists(regexes) == UNION {[1..n -> regexes] : n \in 0..MaxPatternLen}

PlatformKeys == {"PostgreSql", "PostgreSQL", "Snowflake"}
PlatformNames == {"postgres", "x"}

DatasetTypeMappings == UNION {[S -> PlatformNames] : S \in SUBSET PlatformKeys}

PlatformDetail(platform_instance, env) == [platform_instance |-> platform_instance, env |-> env]

ServerMappings ==
    {EmptyMap, [k \in {"localhost:5432"} |-> PlatformDetail(Str("warehouse"), "PROD")]}

Omitted == [tag |-> "omitted"]

\* the overrides of the toggles and of the timeout an input may carry
Overrides ==
    { [scan_timeout |-> Omitted, extract_ownership |-> Omitted, extract_reports |-> Omitted],
      [scan_timeout |-> Integer(30), extract_ownership |-> Bool(TRUE), extract_reports |-> Bool(FALSE)] }

Credentials ==
    { [k \in S |-> Str("secret")] : S \in {R \in SUBSET RequiredFields : Cardinality(R) >= 2} }

\* the keys of c that are supplied
Supplied(c) == [k \in {j \in DOMAIN c : c[j] # Omitted} |-> c[k]]

\* the union of two dicts with disjoint keys
Merge(f, g) == [k \in DOMAIN f \cup DOMAIN g |-> IF k \in DOMAIN f THEN f[k] ELSE g[k]]

RawMappings ==
    { Merge(cred, Merge(Supplied(o),
            Supplied([workspace_id |-> w, workspace_id_pattern |-> p,
                      dataset_type_mapping |-> d, server_to_platform_instance |-> s]))) :
        cred \in Credentials,
        o \in Overrides,
        w \in {Omitted, None} \cup {Str(x) : x \in WorkspaceIds},
        p \in {Omitted} \cup {Pattern(a, b) : a \in RegexLists(Regexes), b \in RegexLists(DenyRegexes)},
        d \in {Omitted, None} \cup {Dict(m) : m \in DatasetTypeMappings},
        s \in {Omitted, None} \cup {Dict(m) : m \in ServerMappings} }

-----------------------------------------------------------------------------
(* State *)

VARIABLES
    raw,        \* the mapping the construction was called with
    values,     \* the values dict the validators work on; the object's fields once VALIDATED
    errors,     \* the errors collected so far
    phase,      \* RAW, CHECKED, COERCED, NORMALIZED, VALIDATED or FAILED
    ran,        \* the validators that ran in this construction, in order
    warnings,   \* the warnings logged in this construction
    pass,       \* the number of the construction in a chain of re-applications
    prev        \* the fields of the object the previous construction built

vars == << raw, values, errors, phase, ran, warnings, pass, prev >>

Init ==
    /\ raw \in RawMappings
    /\ values = EmptyDict
    /\ errors = {}
    /\ phase = "RAW"
    /\ ran = << >>
    /\ warnings = {}
    /\ pass = 1
    /\ prev = EmptyDict

\* the pre root validator recording its error and letting the construction go on
PreRootValidate_continue ==
    /\ phase = "RAW"
    /\ ran' = Append(ran, "raise_error_for_dataset_type_mapping")
    /\ errors' = IF ConflictRaised(raw) THEN {ConflictError} ELSE errors
    /\ phase' = "CHECKED"
    /\ UNCHANGED << raw, values, warnings, pass, prev >>

\* the pre root validator: a raise ends the construction at once
PreRootValidate ==
    /\ phase = "RAW"
    /\ ran' = Append(ran, "raise_error_for_dataset_type_mapping")
    /\ IF ConflictRaised(raw)
       THEN /\ phase' = "FAILED"
            /\ errors' = {ConflictError}
       ELSE /\ phase' = "CHECKED"
            /\ errors' = errors
    /\ UNCHANGED << raw, values, warnings, pass, prev >>

\* the validation of each field; map_data_platform runs on a supplied dataset_type_mapping
ValidateFields ==
    /\ phase = "CHECKED"
    /\ values' = ValidatedFields(raw)
    /\ errors' = errors \cup FieldErrors(raw)
    /\ ran' = IF Get(raw, "dataset_type_mapping") # None
              THEN Append(ran, "map_data_platform")
              ELSE ran
    /\ phase' = "COERCED"
    /\ UNCHANGED << raw, warnings, pass, prev >>

\* the post root validator; it runs whether or not a field failed
PostRootValidate ==
    /\ phase = "COERCED"
    /\ values' = workspace_id_backward_compatibility(values)
    /\ warnings' = warnings \cup
          (CASE BackwardCompatibilityCase(values) = "fold" -> {WarnFolded}
             [] BackwardCompatibilityCase(values) = "ignore" -> {WarnIgnored}
             [] OTHER -> {})
    /\ ran' = Append(ran, "workspace_id_backward_compatibility")
    /\ phase' = "NORMALIZED"
    /\ UNCHANGED << raw, errors, pass, prev >>

\* the end of the construction: the object, or the errors raised and no object
Construct ==
    /\ phase = "NORMALIZED"
    /\ IF errors = {}
       THEN /\ phase' = "VALIDATED"
            /\ values' = values
       ELSE /\ phase' = "FAILED"
            /\ values' = EmptyDict
    /\ UNCHANGED << raw, errors, ran, warnings, pass, prev >>

\* the mapping in flight after the rules: the keys the caller supplied or a rule
\* wrote, with their normalized values; schema defaults are not part of it
InFlight(input, output) ==
    [k \in {j \in DOMAIN output : j \in DOMAIN input \/ output[j] # FieldDefault[j]} |-> output[k]]

\* the rules applied again to the mapping they produced
Reapply ==
    /\ phase = "VALIDATED"
    /\ pass < MaxPasses
    /\ raw' = InFlight(raw, values)
    /\ prev' = values
    /\ pass' = pass + 1
    /\ values' = EmptyDict
    /\ errors' = {}
    /\ ran' = << >>
    /\ warnings' = {}
    /\ phase' = "RAW"

Next ==
    \/ PreRootValidate
    \/ ValidateFields
    \/ PostRootValidate
    \/ Construct
    \/ Reapply

Spec == Init /\ [][Next]_vars

-----------------------------------------------------------------------------
(* What the claims speak of *)

\* the value the caller supplied for a key: None when omitted or null
RawValue(k) == IF k \in DOMAIN raw THEN raw[k] ELSE [tag |-> "None"]

\* the caller supplied a non-null value for the key
ExplicitlySet(k) == k \in DOMAIN raw /\ raw[k].tag # "None"

\* the canonical allow-all value, written out
CanonicalAllowAll == [tag |-> "AllowDenyPattern", allow |-> << ".*" >>, deny |-> << >>]

\* the pattern the construction starts from: the supplied one, or allow-all
InputPattern ==
    IF "workspace_id_pattern" \in DOMAIN raw THEN raw["workspace_id_pattern"] ELSE CanonicalAllowAll

\* a key is absent from a dict: missing, or None
Absent(d, k) == k \notin DOMAIN d \/ d[k].tag = "None"

\* the field validation of this construction is over
Coerced == phase \in {"COERCED", "NORMALIZED", "VALIDATED"}

Rank(p) ==
    CASE p = "RAW" -> 0
      [] p = "CHECKED" -> 1
      [] p = "COERCED" -> 2
      [] p = "NORMALIZED" -> 3
      [] p = "VALIDATED" -> 4
      [] p = "FAILED" -> 5

-----------------------------------------------------------------------------
(* C1 *)

\* C1: whenever dataset_type_mapping and server_to_platform_instance are both
\* supplied with a non-null value (empty mappings included), the construction
\* fails with the conflict error alone and yields no object; so no validated
\* configuration comes from a mapping that supplied both.
C1_ConflictFails ==
    /\ (ExplicitlySet("dataset_type_mapping") /\ ExplicitlySet("server_to_platform_instance")
        /\ phase # "RAW")
          => /\ phase = "FAILED"
             /\ errors = {"dataset_type_mapping is deprecated. Use server_to_platform_instance only."}
             /\ values = EmptyDict
    /\ phase = "VALIDATED"
          => ~(ExplicitlySet("dataset_type_mapping") /\ ExplicitlySet("server_to_platform_instance"))

C1_Witness ==
    /\ phase = "FAILED"
    /\ ExplicitlySet("dataset_type_mapping")
    /\ ExplicitlySet("server_to_platform_instance")
    /\ DOMAIN raw["dataset_type_mapping"].m = {}
    /\ DOMAIN raw["server_to_platform_instance"].m = {}
    /\ ConflictError \in errors

-----------------------------------------------------------------------------
(* C2 *)

\* C2 as claimed: with an allow-all input pattern and workspace_id set to any
\* string w, the configuration's pattern is allow ["^" + w + "$"], deny [].
C2_AnyString ==
    (phase = "VALIDATED" /\ InputPattern = CanonicalAllowAll /\ RawValue("workspace_id").tag = "str")
      => values["workspace_id_pattern"] =
            [tag |-> "AllowDenyPattern",
             allow |-> << "^" \o RawValue("workspace_id").s \o "$" >>, deny |-> << >>]

\* C2 amended: with an allow-all input pattern (omitted or supplied) and
\* workspace_id set to a non-empty string w, the configuration's pattern is
\* allow ["^" + w + "$"], deny []; with the empty string the pattern stays
\* allow-all.
C2_NonEmptyString ==
    (phase = "VALIDATED" /\ InputPattern = CanonicalAllowAll /\ RawValue("workspace_id").tag = "str")
      => values["workspace_id_pattern"] =
            IF RawValue("workspace_id").s # ""
            THEN [tag |-> "AllowDenyPattern",
                  allow |-> << "^" \o RawValue("workspace_id").s \o "$" >>, deny |-> << >>]
            ELSE CanonicalAllowAll

C2_Witness ==
    /\ phase = "VALIDATED"
    /\ "workspace_id_pattern" \in DOMAIN raw
    /\ raw["workspace_id_pattern"] = CanonicalAllowAll
    /\ RawValue("workspace_id") = [tag |-> "str", s |-> "a"]
    /\ values["workspace_id_pattern"].allow = << "^a$" >>
    /\ values["workspace_id_pattern"].deny = << >>

-----------------------------------------------------------------------------
(* C3 *)

\* C3 as claimed: with an input pattern other than allow-all and workspace_id
\* set to any string, the configuration has no workspace_id and its pattern is
\* the input pattern.
C3_AnyString ==
    (phase = "VALIDATED" /\ InputPattern # CanonicalAllowAll /\ RawValue("workspace_id").tag = "str")
      => /\ Absent(values, "workspace_id")
         /\ values["workspace_id_pattern"] = InputPattern

\* C3 amended: with an input pattern other than allow-all and workspace_id set
\* to a non-empty string, the configuration has no workspace_id and its pattern
\* is the input pattern; an empty workspace_id stays in the configuration, the
\* pattern unchanged as well.
C3_NonEmptyString ==
    (phase = "VALIDATED" /\ InputPattern # CanonicalAllowAll /\ RawValue("workspace_id").tag = "str")
      => /\ values["workspace_id_pattern"] = InputPattern
         /\ IF RawValue("workspace_id").s # ""
            THEN "workspace_id" \notin DOMAIN values
            ELSE "workspace_id" \in DOMAIN values /\ values["workspace_id"] = RawValue("workspace_id")

C3_Witness ==
    /\ phase = "VALIDATED"
    /\ InputPattern = [tag |-> "AllowDenyPattern", allow |-> << "^foo.*" >>, deny |-> << >>]
    /\ RawValue("workspace_id") = [tag |-> "str", s |-> "a"]
    /\ "workspace_id" \notin DOMAIN values
    /\ values["workspace_id_pattern"].allow = << "^foo.*" >>
    /\ WarnIgnored \in warnings

-----------------------------------------------------------------------------
(* C4 *)

\* C4 as claimed: no validated configuration has a workspace_id.
C4_NeverSurvives == phase = "VALIDATED" => Absent(values, "workspace_id")

\* C4 amended: a validated configuration has no workspace_id exactly when none
\* was supplied (or null was) or when a non-empty one was supplied along with a
\* pattern other than allow-all; a workspace_id folded into the pattern, and an
\* empty one, stay in the configuration with the supplied value.
C4_SurvivesWhenFolded ==
    phase = "VALIDATED"
      => IF RawValue("workspace_id").tag = "str"
            /\ (RawValue("workspace_id").s = "" \/ InputPattern = CanonicalAllowAll)
         THEN "workspace_id" \in DOMAIN values /\ values["workspace_id"] = RawValue("workspace_id")
         ELSE Absent(values, "workspace_id")

C4_Witness ==
    /\ phase = "VALIDATED"
    /\ RawValue("workspace_id") = [tag |-> "str", s |-> "b"]
    /\ values["workspace_id_pattern"].allow = << "^b$" >>
    /\ values["workspace_id"] = [tag |-> "str", s |-> "b"]
    /\ WarnFolded \in warnings

-----------------------------------------------------------------------------
(* C5 *)

-----------------------------------------------------------------------------
(* C6 *)

\* C6: once the fields are validated, a supplied dataset_type_mapping with the
\* key "PostgreSql" mapped to x has "PostgreSQL" mapped to x, has no
\* "PostgreSql", and has every other entry as supplied and no further entry;
\* without the key "PostgreSql" the mapping is as supplied.
C6_PostgreSqlRenamed ==
    (Coerced /\ ExplicitlySet("dataset_type_mapping"))
      => LET m == raw["dataset_type_mapping"].m
             r == values["dataset_type_mapping"].m
             others == DOMAIN m \ {"PostgreSql", "PostgreSQL"}
         IN  IF "PostgreSql" \in DOMAIN m
             THEN /\ "PostgreSQL" \in DOMAIN r
                  /\ r["PostgreSQL"] = m["PostgreSql"]
                  /\ "PostgreSql" \notin DOMAIN r
                  /\ DOMAIN r = others \cup {"PostgreSQL"}
                  /\ \A k \in others : r[k] = m[k]
             ELSE r = m

C6_Witness ==
    /\ phase = "VALIDATED"
    /\ ExplicitlySet("dataset_type_mapping")
    /\ DOMAIN raw["dataset_type_mapping"].m = {"PostgreSql", "PostgreSQL", "Snowflake"}
    /\ raw["dataset_type_mapping"].m["PostgreSql"] = "x"
    /\ raw["dataset_type_mapping"].m["PostgreSQL"] = "postgres"
    /\ values["dataset_type_mapping"].m["PostgreSQL"] = "x"
    /\ DOMAIN values["dataset_type_mapping"].m = {"PostgreSQL", "Snowflake"}

-----------------------------------------------------------------------------
(* C7 *)

\* C7: a mapping that supplies at most one of dataset_type_mapping and
\* server_to_platform_instance (the other omitted or null) never gets the
\* conflict error; and when dataset_type_mapping is omitted the configuration
\* built carries the schema default for it, which is not empty.
C7_RawPresenceOnly ==
    /\ ~(ExplicitlySet("dataset_type_mapping") /\ ExplicitlySet("server_to_platform_instance"))
          => "dataset_type_mapping is deprecated. Use server_to_platform_instance only." \notin errors
    /\ (phase = "VALIDATED" /\ "dataset_type_mapping" \notin DOMAIN raw)
          => /\ values["dataset_type_mapping"].tag = "dict"
             /\ DOMAIN values["dataset_type_mapping"].m =
                   {"PostgreSQL", "Oracle", "Snowflake", "Sql", "GoogleBigQuery", "AmazonRedshift"}
             /\ values["dataset_type_mapping"].m["PostgreSQL"] = "postgres"

C7_Witness ==
    /\ phase = "VALIDATED"
    /\ "dataset_type_mapping" \notin DOMAIN raw
    /\ ExplicitlySet("server_to_platform_instance")
    /\ DOMAIN raw["server_to_platform_instance"].m # {}
    /\ values["dataset_type_mapping"].m["Snowflake"] = "snowflake"
    /\ values["server_to_platform_instance"] = raw["server_to_platform_instance"]

-----------------------------------------------------------------------------
(* C8 *)

\* C8: a construction only moves forward through its phases, FAILED is final,
\* the exclusivity guard runs before the two other rules, and when the guard
\* fails nothing else has run and there is no object, not even a partial one.
C8_FailFast ==
    /\ []("dataset_type_mapping is deprecated. Use server_to_platform_instance only." \in errors
            => /\ phase = "FAILED"
               /\ ran = << "raise_error_for_dataset_type_mapping" >>
               /\ warnings = {}
               /\ values = EmptyDict)
    /\ [](\A i \in DOMAIN ran :
             ran[i] \in {"map_data_platform", "workspace_id_backward_compatibility"}
                => \E j \in 1..(i - 1) : ran[j] = "raise_error_for_dataset_type_mapping")
    /\ [][/\ pass' = pass => Rank(phase') >= Rank(phase)
          /\ phase = "FAILED" => UNCHANGED vars
          /\ phase' = "VALIDATED" => errors' = {}]_vars

C8_Witness ==
    /\ phase = "FAILED"
    /\ ConflictError \in errors
    /\ "PostgreSql" \in DOMAIN raw["dataset_type_mapping"].m
    /\ RawValue("workspace_id") = [tag |-> "str", s |-> "a"]
    /\ Len(ran) = 1

-----------------------------------------------------------------------------
(* C9 *)

\* C9: when workspace_id is not supplied (or is null), the pattern after the
\* post root validator and in the configuration is the input pattern, allow-all
\* when none was supplied, and the configuration has no workspace_id.
C9_UnsetNoChange ==
    (phase \in {"NORMALIZED", "VALIDATED"} /\ RawValue("workspace_id").tag = "None")
      => /\ values["workspace_id_pattern"] = InputPattern
         /\ Absent(values, "workspace_id")
         /\ warnings = {}

C9_Witness ==
    /\ phase = "VALIDATED"
    /\ "workspace_id" \notin DOMAIN raw
    /\ "workspace_id_pattern" \notin DOMAIN raw
    /\ values["workspace_id_pattern"] = CanonicalAllowAll
    /\ values["workspace_id"].tag = "None"

-----------------------------------------------------------------------------
(* C10 *)

\* C10: with only tenant_id, client_id and client_secret supplied the
\* construction succeeds, and from the field validation on, through the post
\* root validator, the toggles and the timeout have the documented defaults.
C10_Defaults ==
    (DOMAIN raw = {"tenant_id", "client_id", "client_secret"} /\ phase \notin {"RAW", "CHECKED"})
      => /\ phase # "FAILED"
         /\ errors = {}
         /\ values["extract_ownership"] = [tag |-> "bool", b |-> FALSE]
         /\ values["extract_reports"] = [tag |-> "bool", b |-> TRUE]
         /\ values["extract_lineage"] = [tag |-> "bool", b |-> TRUE]
         /\ values["extract_endorsements_to_tags"] = [tag |-> "bool", b |-> FALSE]
         /\ values["extract_workspaces_to_containers"] = [tag |-> "bool", b |-> TRUE]
         /\ values["native_query_parsing"] = [tag |-> "bool", b |-> TRUE]
         /\ values["convert_urns_to_lowercase"] = [tag |-> "bool", b |-> FALSE]
         /\ values["convert_lineage_urns_to_lowercase"] = [tag |-> "bool", b |-> TRUE]
         /\ values["admin_apis_only"] = [tag |-> "bool", b |-> FALSE]
         /\ values["scan_timeout"] = [tag |-> "int", n |-> 60]

C10_Witness ==
    /\ phase = "VALIDATED"
    /\ pass = 1
    /\ DOMAIN raw = {"tenant_id", "client_id", "client_secret"}
    /\ values["extract_reports"].b
    /\ values["scan_timeout"].n = 60

=============================================================================
